---- MODULE Spec2Model ----
(***************************************************************************)
(* ErrorInjector (pkg/client/testingclient/error.go): a client.Client      *)
(* decorator that returns registered errors for (action, kind, objectKey)  *)
(* tuples, with wildcards, before delegating to the wrapped client.        *)
(***************************************************************************)
EXTENDS Naturals, FiniteSets, Sequences, TLC

----------------------------------------------------------------------------
(* Action enumerants, error.go:15-22 *)
GetAction == "get"
CreateAction == "create"
DeleteAction == "delete"
UpdateAction == "update"
PatchAction == "patch"
AnyAction == "*"

\* The kinds a real call carries: one per intercepted operation.
CallActions == {GetAction, CreateAction, DeleteAction, UpdateAction, PatchAction}

\* Action is a string type: values outside the six constants can be passed.
InvalidActions == {""}

\* Every Action value handed to InjectError in this model.
InjectActions == CallActions \cup {AnyAction} \cup InvalidActions

(* Wildcard sentinels, error.go:30-34 *)
AnyKind == "AnyKind"
AnyObject == ""
anyKindGVK == "*"

\* Object identities (client.ObjectKey); AnyObject is the empty key.
ObjectKeys == {"ns1/a", "ns1/b"}
CallKeys == ObjectKeys \cup {AnyObject}

\* The identities rules are registered for: one object, or any.
InjectKeys == {"ns1/a", AnyObject}

\* Go types of the objects handed to the client.  The first two are
\* registered in the delegate's scheme, the last one is not.
RegisteredTypes == {"Deployment", "ConfigMap"}
UnregisteredTypes == {"Unregistered"}
ObjectTypes == RegisteredTypes \cup UnregisteredTypes

\* The kind arguments rules are registered with: the sentinel, an object
\* of one registered type, an object of an unregistered type.
InjectKinds == {AnyKind, "Deployment"} \cup UnregisteredTypes

\* Error values: the nil error, injected errors, the delegate's own errors.
Nil == "nil"
InjectedErrors == {"e1", "e2"}
ErrorArgs == {Nil} \cup InjectedErrors
DelegateErrors == {"NotFound", "AlreadyExists", "Invalid"}

\* Outcome of a call that panicked.
Panic == "panic"

\* Call options (variadic): none, or client.DryRunAll.
NoOpts == "none"
Opts == {NoOpts, "DryRunAll"}

\* Objects the test seeds the delegate with (NewFakeClient(dep, ...)).
SeededObjects == {<<"Deployment", "ns1/a">>}

\* Operations performed in one test scenario.
MaxOps == 3

\* Entries the rule table holds at most in one test scenario.
MaxRules == 2

----------------------------------------------------------------------------
VARIABLES
  errorsToReturn,   \* ErrorInjector.errorsToReturn
  store,            \* the objects the delegate holds
  last,             \* the last operation on the decorator and its outcome
  direct,           \* the objects of a twin delegate called directly
  replaced,         \* per key, the error its latest registration replaced
  steps             \* operations performed so far

vars == <<errorsToReturn, store, last, direct, replaced, steps>>

NoCall == "-"
Off == {<<"off", "off">>}

resourceActionKey(action, kind, objectKey) ==
  [action |-> action, kind |-> kind, objectKey |-> objectKey]

\* m[k] = v on a Go map.
Put(m, k, v) == [x \in DOMAIN m \cup {k} |-> IF x = k THEN v ELSE m[x]]

\* mustGVKForObject(obj, c.Scheme()): the object's GVK, or a panic when the
\* delegate's scheme (its registered types) does not know the object's type.
mustGVKForObject(kind, scheme) ==
  IF kind \in scheme THEN kind ELSE Panic

Min(S) == CHOOSE n \in S : \A m \in S : n <= m

\* Mutant: the identity wildcard is probed before the exact key.
Probes_AnyObjectFirst(action, gvk, objectKey) ==
  << resourceActionKey(action, gvk, AnyObject),
     resourceActionKey(action, gvk, objectKey),
     resourceActionKey(AnyAction, gvk, objectKey),
     resourceActionKey(action, anyKindGVK, objectKey),
     resourceActionKey(AnyAction, gvk, AnyObject),
     resourceActionKey(action, anyKindGVK, AnyObject),
     resourceActionKey(AnyAction, anyKindGVK, objectKey),
     resourceActionKey(AnyAction, anyKindGVK, AnyObject) >>

\* Mutant: the action wildcard is probed before the identity wildcard.
Probes_AnyActionFirst(action, gvk, objectKey) ==
  << resourceActionKey(action, gvk, objectKey),
     resourceActionKey(AnyAction, gvk, objectKey),
     resourceActionKey(action, gvk, AnyObject),
     resourceActionKey(action, anyKindGVK, objectKey),
     resourceActionKey(AnyAction, gvk, AnyObject),
     resourceActionKey(action, anyKindGVK, AnyObject),
     resourceActionKey(AnyAction, anyKindGVK, objectKey),
     resourceActionKey(AnyAction, anyKindGVK, AnyObject) >>

\* Mutant: the third candidate names Create where it should name AnyAction.
Probes_CreateForAnyAction(action, gvk, objectKey) ==
  << resourceActionKey(action, gvk, objectKey),
     resourceActionKey(action, gvk, AnyObject),
     resourceActionKey(CreateAction, gvk, objectKey),
     resourceActionKey(action, anyKindGVK, objectKey),
     resourceActionKey(AnyAction, gvk, AnyObject),
     resourceActionKey(action, anyKindGVK, AnyObject),
     resourceActionKey(AnyAction, anyKindGVK, objectKey),
     resourceActionKey(AnyAction, anyKindGVK, AnyObject) >>

\* The eight candidate keys in probe order, error.go:121-130.
Probes(action, gvk, objectKey) ==
  << resourceActionKey(action, gvk, objectKey),
     resourceActionKey(action, gvk, AnyObject),
     resourceActionKey(AnyAction, gvk, objectKey),
     resourceActionKey(action, anyKindGVK, objectKey),
     resourceActionKey(AnyAction, gvk, AnyObject),
     resourceActionKey(action, anyKindGVK, AnyObject),
     resourceActionKey(AnyAction, anyKindGVK, objectKey),
     resourceActionKey(AnyAction, anyKindGVK, AnyObject) >>

Hits(table, probes) == {n \in 1..Len(probes) : probes[n] \in DOMAIN table}

\* Mutant: an object of unknown type is probed under the wildcard kind.
getStubbedError_WildcardFallback(table, action, kind, objectKey) ==
  LET gvk == IF kind \in RegisteredTypes THEN kind ELSE anyKindGVK
      probes == Probes(action, gvk, objectKey)
      hits == Hits(table, probes)
  IN IF hits = {} THEN Nil ELSE table[probes[Min(hits)]]

getStubbedError(table, action, kind, objectKey) ==
  LET gvk == mustGVKForObject(kind, RegisteredTypes) IN
  IF gvk = Panic THEN Panic
  ELSE LET probes == Probes(action, gvk, objectKey)
           hits == Hits(table, probes)
       IN IF hits = {} THEN Nil ELSE table[probes[Min(hits)]]

\* Mutant: every Action value is accepted.
IsValid_AcceptsAll(a) == a = a

IsValid(a) ==
  a \in {GetAction, CreateAction, DeleteAction, UpdateAction, PatchAction, AnyAction}

----------------------------------------------------------------------------
(* The delegate: the fake client's object store. *)

DelegateResult(op, s, kind, key) ==
  CASE op = GetAction -> IF <<kind, key>> \in s THEN Nil ELSE "NotFound"
    [] op = CreateAction ->
         IF key = AnyObject THEN "Invalid"
         ELSE IF <<kind, key>> \in s THEN "AlreadyExists" ELSE Nil
    [] op = DeleteAction -> IF <<kind, key>> \in s THEN Nil ELSE "NotFound"
    [] op = UpdateAction ->
         IF key = AnyObject THEN "Invalid"
         ELSE IF <<kind, key>> \in s THEN Nil ELSE "NotFound"
    [] op = PatchAction -> IF <<kind, key>> \in s THEN Nil ELSE "NotFound"

DelegateStore(op, s, kind, key, opts) ==
  IF opts # NoOpts \/ DelegateResult(op, s, kind, key) # Nil THEN s
  ELSE CASE op = CreateAction -> s \cup {<<kind, key>>}
         [] op = DeleteAction -> s \ {<<kind, key>>}
         [] OTHER -> s

----------------------------------------------------------------------------
\* The record of the last operation performed on the decorator: its
\* arguments, whether it resolved the object's type through c.Scheme(),
\* what it returned (or Panic), and the operations it invoked on the
\* delegate.
Call(op, action, kind, key, name, arg, resolved, err, fwd) ==
  [op |-> op, action |-> action, kind |-> kind, key |-> key, name |-> name,
   arg |-> arg, resolved |-> resolved, err |-> err, fwd |-> fwd]

Invocation(op, kind, key, name, opts) ==
  [op |-> op, kind |-> kind, key |-> key, name |-> name, opts |-> opts]

\* A panic aborts the calling test step: nothing runs after it.
Running == last.err # Panic /\ steps < MaxOps

\* NewErrorInjector(cl): an empty rule table over a delegate holding the
\* objects the test seeded it with.
Init ==
  /\ errorsToReturn = << >>
  /\ store = SeededObjects
  /\ last = Call("NewErrorInjector", NoCall, NoCall, NoCall, NoCall, NoCall, FALSE, Nil, << >>)
  /\ direct = SeededObjects
  /\ replaced = << >>
  /\ steps = 0

\* The same call made on a twin of the delegate directly, tracked for as
\* long as the rule table has been empty.
Twin(op, kind, key, opts) ==
  IF direct = Off \/ DOMAIN errorsToReturn # {}
    THEN Off
    ELSE DelegateStore(op, direct, kind, key, opts)

\* Mutant: the delegate is called but its error is dropped.
Intercept_DropsDelegateError(op, action, kind, key, name, opts) ==
  LET err == getStubbedError(errorsToReturn, action, kind, key) IN
  /\ Running
  /\ steps' = steps + 1
  /\ UNCHANGED <<errorsToReturn, replaced>>
  /\ IF err = Panic
       THEN /\ last' = Call(op, action, kind, key, NoCall, opts, TRUE, Panic, << >>)
            /\ UNCHANGED <<store, direct>>
       ELSE IF err # Nil
       THEN /\ last' = Call(op, action, kind, key, name, opts, TRUE, err, << >>)
            /\ UNCHANGED store
            /\ direct' = Twin(action, kind, key, opts)
       ELSE /\ last' = Call(op, action, kind, key, name, opts, TRUE, Nil,
                            << Invocation(op, kind, key, name, opts) >>)
            /\ store' = DelegateStore(action, store, kind, key, opts)
            /\ direct' = Twin(action, kind, key, opts)

\* Mutant: the delegate is called before the stub is looked up.
Intercept_DelegatesFirst(op, action, kind, key, name, opts) ==
  LET err == getStubbedError(errorsToReturn, action, kind, key) IN
  /\ Running
  /\ steps' = steps + 1
  /\ UNCHANGED <<errorsToReturn, replaced>>
  /\ IF err = Panic
       THEN /\ last' = Call(op, action, kind, key, NoCall, opts, TRUE, Panic, << >>)
            /\ UNCHANGED <<store, direct>>
       ELSE /\ last' = Call(op, action, kind, key, name, opts, TRUE,
                            IF err # Nil THEN err
                            ELSE DelegateResult(action, store, kind, key),
                            << Invocation(op, kind, key, name, opts) >>)
            /\ store' = DelegateStore(action, store, kind, key, opts)
            /\ direct' = Twin(action, kind, key, opts)

\* Mutant: a rule is removed once it has been returned.
Intercept_ConsumesRule(op, action, kind, key, name, opts) ==
  LET err == getStubbedError(errorsToReturn, action, kind, key) IN
  /\ Running
  /\ steps' = steps + 1
  /\ UNCHANGED replaced
  /\ IF err = Panic
       THEN /\ last' = Call(op, action, kind, key, NoCall, opts, TRUE, Panic, << >>)
            /\ UNCHANGED <<errorsToReturn, store, direct>>
       ELSE IF err # Nil
       THEN /\ last' = Call(op, action, kind, key, name, opts, TRUE, err, << >>)
            /\ errorsToReturn' =
                 LET probes == Probes(action, kind, key)
                     hit == probes[Min(Hits(errorsToReturn, probes))]
                 IN [x \in DOMAIN errorsToReturn \ {hit} |-> errorsToReturn[x]]
            /\ UNCHANGED store
            /\ direct' = Twin(action, kind, key, opts)
       ELSE /\ last' = Call(op, action, kind, key, name, opts, TRUE,
                            DelegateResult(action, store, kind, key),
                            << Invocation(op, kind, key, name, opts) >>)
            /\ UNCHANGED errorsToReturn
            /\ store' = DelegateStore(action, store, kind, key, opts)
            /\ direct' = Twin(action, kind, key, opts)

\* Mutant: the candidate keys are built from the object's own namespace
\* and name in every handler, Get included.
Intercept_ProbesObjectName(op, action, kind, key, name, opts) ==
  LET err == getStubbedError(errorsToReturn, action, kind, name) IN
  /\ Running
  /\ steps' = steps + 1
  /\ UNCHANGED <<errorsToReturn, replaced>>
  /\ IF err = Panic
       THEN /\ last' = Call(op, action, kind, key, NoCall, opts, TRUE, Panic, << >>)
            /\ UNCHANGED <<store, direct>>
       ELSE IF err # Nil
       THEN /\ last' = Call(op, action, kind, key, name, opts, TRUE, err, << >>)
            /\ UNCHANGED store
            /\ direct' = Twin(action, kind, key, opts)
       ELSE /\ last' = Call(op, action, kind, key, name, opts, TRUE,
                            DelegateResult(action, store, kind, key),
                            << Invocation(op, kind, key, name, opts) >>)
            /\ store' = DelegateStore(action, store, kind, key, opts)
            /\ direct' = Twin(action, kind, key, opts)

\* One intercepted operation: probe, then return the stub or delegate.
Intercept(op, action, kind, key, name, opts) ==
  LET err == getStubbedError(errorsToReturn, action, kind, key) IN
  /\ Running
  /\ steps' = steps + 1
  /\ UNCHANGED <<errorsToReturn, replaced>>
  /\ IF err = Panic
       THEN /\ last' = Call(op, action, kind, key, NoCall, opts, TRUE, Panic, << >>)
            /\ UNCHANGED <<store, direct>>
       ELSE IF err # Nil
       THEN /\ last' = Call(op, action, kind, key, name, opts, TRUE, err, << >>)
            /\ UNCHANGED store
            /\ direct' = Twin(action, kind, key, opts)
       ELSE /\ last' = Call(op, action, kind, key, name, opts, TRUE,
                            DelegateResult(action, store, kind, key),
                            << Invocation(op, kind, key, name, opts) >>)
            /\ store' = DelegateStore(action, store, kind, key, opts)
            /\ direct' = Twin(action, kind, key, opts)

Get ==
  \E key \in CallKeys, kind \in ObjectTypes, name \in ObjectKeys :
    Intercept("Get", GetAction, kind, key, name, NoOpts)

Create ==
  \E kind \in ObjectTypes, name \in CallKeys, opts \in Opts :
    Intercept("Create", CreateAction, kind, name, name, opts)

Delete ==
  \E kind \in ObjectTypes, name \in CallKeys, opts \in Opts :
    Intercept("Delete", DeleteAction, kind, name, name, opts)

Update ==
  \E kind \in ObjectTypes, name \in CallKeys, opts \in Opts :
    Intercept("Update", UpdateAction, kind, name, name, opts)

Patch ==
  \E kind \in ObjectTypes, name \in CallKeys, opts \in Opts :
    Intercept("Patch", PatchAction, kind, name, name, opts)

\* Mutant: the operation is passed to the delegate.
Unimplemented_Delegates(op) ==
  /\ Running
  /\ steps' = steps + 1
  /\ last' = Call(op, NoCall, NoCall, NoCall, NoCall, NoCall, FALSE, Nil,
                  << Invocation(op, NoCall, NoCall, NoCall, NoOpts) >>)
  /\ UNCHANGED <<errorsToReturn, store, direct, replaced>>

\* List, DeleteAllOf and Status panic("implement me").
Unimplemented(op) ==
  /\ Running
  /\ steps' = steps + 1
  /\ last' = Call(op, NoCall, NoCall, NoCall, NoCall, NoCall, FALSE, Panic, << >>)
  /\ UNCHANGED <<errorsToReturn, store, direct, replaced>>

List == Unimplemented("List")

DeleteAllOf == Unimplemented("DeleteAllOf")

Status == Unimplemented("Status")

\* Scheme and RESTMapper return what the delegate returns.
PassThrough(op) ==
  /\ Running
  /\ steps' = steps + 1
  /\ last' = Call(op, NoCall, NoCall, NoCall, NoCall, NoCall, FALSE, Nil,
                  << Invocation(op, NoCall, NoCall, NoCall, NoOpts) >>)
  /\ UNCHANGED <<errorsToReturn, store, direct, replaced>>

Scheme == PassThrough("Scheme")

RESTMapper == PassThrough("RESTMapper")

\* Mutant: a key that is already registered keeps its first error.
InjectErrorWith_KeepsFirst(action, kind, objectKey, injectedError) ==
  LET gvk == IF kind # AnyKind THEN mustGVKForObject(kind, RegisteredTypes) ELSE anyKindGVK
      k == resourceActionKey(action, gvk, objectKey)
  IN
  /\ Running
  /\ steps' = steps + 1
  /\ UNCHANGED <<store, direct>>
  /\ IF gvk = Panic
       THEN /\ last' = Call("InjectError", action, kind, NoCall, NoCall,
                            NoCall, kind # AnyKind, Panic, << >>)
            /\ UNCHANGED <<errorsToReturn, replaced>>
       ELSE /\ last' = Call("InjectError", action, kind, objectKey, NoCall,
                            injectedError, kind # AnyKind, Nil, << >>)
            /\ IF IsValid(action)
                 THEN /\ Cardinality(DOMAIN errorsToReturn \cup {k}) <= MaxRules
                      /\ errorsToReturn' = IF k \in DOMAIN errorsToReturn
                                              THEN errorsToReturn
                                              ELSE Put(errorsToReturn, k, injectedError)
                      /\ replaced' = IF k \in DOMAIN errorsToReturn
                                        THEN Put(replaced, k, errorsToReturn[k])
                                        ELSE replaced
                 ELSE UNCHANGED <<errorsToReturn, replaced>>

\* Mutant: the sentinel is resolved through the scheme like any object.
InjectErrorWith_ResolvesSentinel(action, kind, objectKey, injectedError) ==
  LET gvk == mustGVKForObject(kind, RegisteredTypes)
      k == resourceActionKey(action, gvk, objectKey)
  IN
  /\ Running
  /\ steps' = steps + 1
  /\ UNCHANGED <<store, direct>>
  /\ IF gvk = Panic
       THEN /\ last' = Call("InjectError", action, kind, NoCall, NoCall,
                            NoCall, TRUE, Panic, << >>)
            /\ UNCHANGED <<errorsToReturn, replaced>>
       ELSE /\ last' = Call("InjectError", action, kind, objectKey, NoCall,
                            injectedError, TRUE, Nil, << >>)
            /\ IF IsValid(action)
                 THEN /\ Cardinality(DOMAIN errorsToReturn \cup {k}) <= MaxRules
                      /\ errorsToReturn' = Put(errorsToReturn, k, injectedError)
                      /\ replaced' = IF k \in DOMAIN errorsToReturn
                                        THEN Put(replaced, k, errorsToReturn[k])
                                        ELSE replaced
                 ELSE UNCHANGED <<errorsToReturn, replaced>>

\* Mutant: the Action is validated before the object's type is resolved.
InjectErrorWith_ValidatesFirst(action, kind, objectKey, injectedError) ==
  LET gvk == IF kind # AnyKind /\ IsValid(action)
               THEN mustGVKForObject(kind, RegisteredTypes)
               ELSE anyKindGVK
      k == resourceActionKey(action, gvk, objectKey)
  IN
  /\ Running
  /\ steps' = steps + 1
  /\ UNCHANGED <<store, direct>>
  /\ IF gvk = Panic
       THEN /\ last' = Call("InjectError", action, kind, NoCall, NoCall,
                            NoCall, kind # AnyKind, Panic, << >>)
            /\ UNCHANGED <<errorsToReturn, replaced>>
       ELSE /\ last' = Call("InjectError", action, kind, objectKey, NoCall,
                            injectedError, kind # AnyKind /\ IsValid(action), Nil, << >>)
            /\ IF IsValid(action)
                 THEN /\ Cardinality(DOMAIN errorsToReturn \cup {k}) <= MaxRules
                      /\ errorsToReturn' = Put(errorsToReturn, k, injectedError)
                      /\ replaced' = IF k \in DOMAIN errorsToReturn
                                        THEN Put(replaced, k, errorsToReturn[k])
                                        ELSE replaced
                 ELSE UNCHANGED <<errorsToReturn, replaced>>

\* InjectError(action, kind, objectKey, injectedError), error.go:151-159.
InjectErrorWith(action, kind, objectKey, injectedError) ==
  LET gvk == IF kind # AnyKind THEN mustGVKForObject(kind, RegisteredTypes) ELSE anyKindGVK
      k == resourceActionKey(action, gvk, objectKey)
  IN
  /\ Running
  /\ steps' = steps + 1
  /\ UNCHANGED <<store, direct>>
  /\ IF gvk = Panic
       THEN /\ last' = Call("InjectError", action, kind, NoCall, NoCall,
                            NoCall, kind # AnyKind, Panic, << >>)
            /\ UNCHANGED <<errorsToReturn, replaced>>
       ELSE /\ last' = Call("InjectError", action, kind, objectKey, NoCall,
                            injectedError, kind # AnyKind, Nil, << >>)
            /\ IF IsValid(action)
                 THEN /\ Cardinality(DOMAIN errorsToReturn \cup {k}) <= MaxRules
                      /\ errorsToReturn' = Put(errorsToReturn, k, injectedError)
                      /\ replaced' = IF k \in DOMAIN errorsToReturn
                                        THEN Put(replaced, k, errorsToReturn[k])
                                        ELSE replaced
                 ELSE UNCHANGED <<errorsToReturn, replaced>>

InjectError ==
  \E action \in InjectActions, kind \in InjectKinds :
    IF kind \in UnregisteredTypes
      THEN InjectErrorWith(action, kind, AnyObject, Nil)
      ELSE \E objectKey \in InjectKeys, injectedError \in ErrorArgs :
             InjectErrorWith(action, kind, objectKey, injectedError)

Next ==
  \/ Get
  \/ List
  \/ Create
  \/ Delete
  \/ Update
  \/ Patch
  \/ DeleteAllOf
  \/ Status
  \/ Scheme
  \/ RESTMapper
  \/ InjectError

Spec == Init /\ [][Next]_vars

----------------------------------------------------------------------------
(* Vocabulary of the properties. *)

Intercepted == {"Get", "Create", "Delete", "Update", "Patch"}

\* The last operation was an intercepted call whose key could be built.
ProbedCall(l) == l.op \in Intercepted /\ l.kind \in RegisteredTypes

\* The candidate keys of the call l, in probe order, and those present.
CallProbes(l) == Probes(l.action, l.kind, l.key)
CallHits(table, l) == Hits(table, CallProbes(l))
FirstHit(table, l) == CallProbes(l)[Min(CallHits(table, l))]

\* The call l returned err without touching the delegate.
ShortCircuited(l, err) == l.err = err /\ l.fwd = << >>

\* The call l made exactly one invocation on the delegate, with its own
\* arguments and options.
Forwarded(l) == l.fwd = << Invocation(l.op, l.kind, l.key, l.name, l.arg) >>

\* The key InjectError builds from its arguments (kind is the sentinel or
\* an object of a registered type).
InjectedKey(l) ==
  resourceActionKey(l.action, IF l.kind = AnyKind THEN anyKindGVK ELSE l.kind, l.key)

\* The last operation was an InjectError that returned normally.
Injected(l) == l.op = "InjectError" /\ l.err # Panic

----------------------------------------------------------------------------
\* C1: after InjectError(K, T, I, err) with a non-nil err, whatever other
\* rules the table holds, operation K on an object of type T with identity
\* I returns exactly err, the delegate is not invoked and its store is the
\* same before and after the call.
C1_ExactRuleStep ==
  LET l == last'
      k == resourceActionKey(l.action, l.kind, l.key)
  IN (ProbedCall(l) /\ k \in DOMAIN errorsToReturn /\ errorsToReturn[k] # Nil)
       => /\ ShortCircuited(l, errorsToReturn[k])
          /\ store' = store

C1_ExactRuleWins == [][C1_ExactRuleStep]_vars

\* An exact rule and a wildcard rule with another error both match the
\* call, and the call returned the exact rule's error.
C1_Witness ==
  LET k == resourceActionKey(last.action, last.kind, last.key) IN
  /\ ProbedCall(last)
  /\ k \in DOMAIN errorsToReturn
  /\ errorsToReturn[k] = "e1"
  /\ \E n \in CallHits(errorsToReturn, last) :
       errorsToReturn[CallProbes(last)[n]] = "e2"
  /\ ShortCircuited(last, "e1")

\* C2: when none of the eight candidate keys of a call is in the table the
\* delegate is invoked exactly once with the call's arguments and options
\* and the call
\* returns the delegate's result unchanged; with an empty table the
\* decorator and a delegate called directly return the same results and
\* hold the same objects.
C2_NoMatchStep ==
  LET l == last' IN
  /\ (ProbedCall(l) /\ CallHits(errorsToReturn, l) = {})
       => /\ Forwarded(l)
          /\ l.err = DelegateResult(l.action, store, l.kind, l.key)
          /\ store' = DelegateStore(l.action, store, l.kind, l.key, l.arg)
  /\ (ProbedCall(l) /\ DOMAIN errorsToReturn = {})
       => /\ direct # Off /\ direct' # Off
          /\ l.err = DelegateResult(l.action, direct, l.kind, l.key)
          /\ store' = direct'

C2_NoMatchDelegates == [][C2_NoMatchStep]_vars

\* Three calls on an empty table, the last one failing in the delegate,
\* after the earlier ones changed what the delegate holds.
C2_Witness ==
  /\ ProbedCall(last)
  /\ DOMAIN errorsToReturn = {}
  /\ steps = MaxOps
  /\ store # SeededObjects
  /\ store = direct
  /\ last.err \in DelegateErrors
  /\ Forwarded(last)

\* C3: the error the matcher chooses is the one stored under the matching
\* rule that comes first in the order (K,T,I), (K,T,Any), (Any,T,I),
\* (K,Any,I), (Any,T,Any), (K,Any,Any), (Any,Any,I), (Any,Any,Any); a
\* matching rule with fewer wildcards is never beaten by one with more.
Matches(k, l) ==
  /\ k.action \in {l.action, AnyAction}
  /\ k.kind \in {l.kind, anyKindGVK}
  /\ k.objectKey \in {l.key, AnyObject}

\* Position of a matching rule in the order, from the components in which
\* it differs from the call (those are its wildcards).
Rank(k, l) ==
  LET a == k.action # l.action
      t == k.kind # l.kind
      i == k.objectKey # l.key
  IN CASE ~a /\ ~t /\ ~i -> 1
       [] ~a /\ ~t /\ i -> 2
       [] a /\ ~t /\ ~i -> 3
       [] ~a /\ t /\ ~i -> 4
       [] a /\ ~t /\ i -> 5
       [] ~a /\ t /\ i -> 6
       [] a /\ t /\ ~i -> 7
       [] a /\ t /\ i -> 8

Wildcards(k, l) ==
  (IF k.action # l.action THEN 1 ELSE 0)
    + (IF k.kind # l.kind THEN 1 ELSE 0)
    + (IF k.objectKey # l.key THEN 1 ELSE 0)

MatchingRules(table, l) == {k \in DOMAIN table : Matches(k, l)}

BestRule(table, l) ==
  CHOOSE k \in MatchingRules(table, l) :
    \A k2 \in MatchingRules(table, l) : Rank(k, l) <= Rank(k2, l)

\* What the matcher chose, seen from the call's outcome: a non-nil choice
\* is returned without the delegate, a nil choice lets the call through.
Chose(l, err) ==
  IF err # Nil THEN ShortCircuited(l, err) ELSE Forwarded(l)

C3_SpecificityOrder ==
  (ProbedCall(last) /\ MatchingRules(errorsToReturn, last) # {})
    => LET best == BestRule(errorsToReturn, last) IN
       /\ Chose(last, errorsToReturn[best])
       /\ \A k \in MatchingRules(errorsToReturn, last) :
            Wildcards(best, last) <= Wildcards(k, last)

\* Rules (K,T,Any) and (Any,T,I) both match, with different errors, and
\* the call returned the error of (K,T,Any).
C3_Witness ==
  LET k2 == resourceActionKey(last.action, last.kind, AnyObject)
      k3 == resourceActionKey(AnyAction, last.kind, last.key)
  IN
  /\ ProbedCall(last)
  /\ last.key # AnyObject
  /\ DOMAIN errorsToReturn = {k2, k3}
  /\ errorsToReturn[k2] = "e2"
  /\ errorsToReturn[k3] = "e1"
  /\ ShortCircuited(last, "e2")

----------------------------------------------------------------------------
\* C4 as stated: whenever any candidate key of an intercepted call is in the
\* table, the call returns the stored value of the first hit and the
\* delegate is not invoked, for every error value InjectError accepts, nil
\* included.
C4_AnyStoredValueShortCircuits ==
  (ProbedCall(last) /\ CallHits(errorsToReturn, last) # {})
    => ShortCircuited(last, errorsToReturn[FirstHit(errorsToReturn, last)])

\* C4 as amended: whenever any candidate key of an intercepted call is in
\* the table and the value stored under the first hit is not nil, the call
\* returns that value and the delegate is not invoked; when that value is
\* nil the call is forwarded to the delegate and returns its result.
C4_StubStep ==
  LET l == last' IN
  (ProbedCall(l) /\ CallHits(errorsToReturn, l) # {})
    => LET v == errorsToReturn[FirstHit(errorsToReturn, l)] IN
       IF v # Nil
         THEN /\ ShortCircuited(l, v)
              /\ store' = store
         ELSE /\ Forwarded(l)
              /\ l.err = DelegateResult(l.action, store, l.kind, l.key)
              /\ store' = DelegateStore(l.action, store, l.kind, l.key, l.arg)

C4_NonNilStubShortCircuits == [][C4_StubStep]_vars

\* The catch-all rule alone is registered and kept a call on a seeded
\* object away from the delegate.
C4_Witness ==
  LET any == resourceActionKey(AnyAction, anyKindGVK, AnyObject) IN
  /\ ProbedCall(last)
  /\ <<last.kind, last.key>> \in SeededObjects
  /\ DOMAIN errorsToReturn = {any}
  /\ errorsToReturn[any] = "e1"
  /\ ShortCircuited(last, "e1")
  /\ store = SeededObjects

\* C5: InjectError with a kind outside {Get, Create, Delete, Update, Patch,
\* Any} leaves the table unchanged, every key of the table has a kind in
\* that set, and a call is short-circuited only by a rule of such a kind.
ValidKinds == {"get", "create", "delete", "update", "patch", "*"}

C5_TableKinds ==
  /\ \A k \in DOMAIN errorsToReturn : k.action \in ValidKinds
  /\ (ProbedCall(last) /\ last.fwd = << >>)
       => \E k \in DOMAIN errorsToReturn :
            /\ k.action \in ValidKinds
            /\ Matches(k, last)
            /\ errorsToReturn[k] = last.err

C5_InvalidStep ==
  LET l == last' IN
  (l.op = "InjectError" /\ l.action \notin ValidKinds)
    => errorsToReturn' = errorsToReturn

C5_InvalidKindIgnored == []C5_TableKinds /\ [][C5_InvalidStep]_vars

\* InjectError with the zero Action returned normally on a table that
\* already holds a rule.
C5_Witness ==
  /\ Injected(last)
  /\ last.action = ""
  /\ last.arg = "e1"
  /\ Cardinality(DOMAIN errorsToReturn) = 1

\* C6: the registration InjectError(K, T, I, e2) stores e2 under the key,
\* which then has exactly one entry, and changes no other entry.
C6_RegisterStep ==
  LET l == last' IN
  (Injected(l) /\ l.action \in ValidKinds)
    => LET k == InjectedKey(l) IN
       /\ DOMAIN errorsToReturn' = DOMAIN errorsToReturn \cup {k}
       /\ errorsToReturn'[k] = l.arg
       /\ \A x \in DOMAIN errorsToReturn \ {k} : errorsToReturn'[x] = errorsToReturn[x]

\* The first hit of the call is a key that was registered twice.
Reregistered(l) ==
  /\ ProbedCall(l)
  /\ CallHits(errorsToReturn, l) # {}
  /\ FirstHit(errorsToReturn, l) \in DOMAIN replaced

\* C6 as stated: after InjectError(K, T, I, e1) and a later InjectError(K,
\* T, I, e2), a call whose first hit is that key returns e2 and never e1.
C6_ReturnsLatest ==
  Reregistered(last)
    => LET k == FirstHit(errorsToReturn, last) IN
       /\ last.err = errorsToReturn[k]
       /\ replaced[k] # errorsToReturn[k] => last.err # replaced[k]

C6_LastWriteWinsAnyValue == []C6_ReturnsLatest /\ [][C6_RegisterStep]_vars

\* C6 as amended: after InjectError(K, T, I, e1) and a later InjectError(K,
\* T, I, e2), a call whose first hit is that key returns e2 when e2 is not
\* nil, is forwarded to the delegate when e2 is nil, and never returns a
\* different e1; the table holds one entry for the key and every other
\* entry is unchanged by the second registration.
C6_ChoosesLatest ==
  Reregistered(last)
    => LET k == FirstHit(errorsToReturn, last) IN
       /\ Chose(last, errorsToReturn[k])
       /\ replaced[k] # errorsToReturn[k] => last.err # replaced[k]

C6_LastWriteWins == []C6_ChoosesLatest /\ [][C6_RegisterStep]_vars

\* A key registered with e1 and then with e2 was the first hit of a call,
\* which returned e2.
C6_Witness ==
  /\ Reregistered(last)
  /\ replaced[FirstHit(errorsToReturn, last)] = "e1"
  /\ errorsToReturn[FirstHit(errorsToReturn, last)] = "e2"
  /\ ShortCircuited(last, "e2")

\* C7: InjectError with the AnyKind sentinel never consults the scheme and
\* stores the rule under the wildcard kind.
C7_SentinelStep ==
  LET l == last' IN
  (l.op = "InjectError" /\ l.kind = AnyKind)
    => /\ ~l.resolved
       /\ l.err # Panic
       /\ l.action \in ValidKinds
            => LET k == resourceActionKey(l.action, anyKindGVK, l.key) IN
               /\ k \in DOMAIN errorsToReturn'
               /\ errorsToReturn'[k] = l.arg

\* The rule (K, Any, I) is the first one a call of kind K with identity I
\* reaches: no rule with the call's concrete type is registered before it.
AnyKindRuleFirst(l) ==
  /\ ProbedCall(l)
  /\ resourceActionKey(l.action, anyKindGVK, l.key) \in DOMAIN errorsToReturn
  /\ resourceActionKey(l.action, l.kind, l.key) \notin DOMAIN errorsToReturn
  /\ resourceActionKey(l.action, l.kind, AnyObject) \notin DOMAIN errorsToReturn
  /\ resourceActionKey(AnyAction, l.kind, l.key) \notin DOMAIN errorsToReturn

\* C7 as stated: the rule of InjectError(K, AnyKind, I, err) short-circuits
\* a call of kind K with identity I on an object of every registered type,
\* unless a rule with the call's concrete type comes earlier.
C7_AnyKindShortCircuits ==
  AnyKindRuleFirst(last)
    => ShortCircuited(last, errorsToReturn[resourceActionKey(last.action, anyKindGVK, last.key)])

C7_AnyKindMatchesAnyValue == []C7_AnyKindShortCircuits /\ [][C7_SentinelStep]_vars

\* C7 as amended: the rule of InjectError(K, AnyKind, I, err) with a non-nil
\* err short-circuits a call of kind K with identity I on an object of
\* every registered type, unless a rule with the call's concrete type comes
\* earlier; with a nil err the call is forwarded to the delegate.
\* InjectError with AnyKind never consults the scheme.
C7_AnyKindChosen ==
  AnyKindRuleFirst(last)
    => Chose(last, errorsToReturn[resourceActionKey(last.action, anyKindGVK, last.key)])

C7_AnyKindMatches == []C7_AnyKindChosen /\ [][C7_SentinelStep]_vars

\* A rule registered with AnyKind short-circuited a call on an object of a
\* type no rule names.
C7_Witness ==
  LET k == resourceActionKey(last.action, anyKindGVK, last.key) IN
  /\ AnyKindRuleFirst(last)
  /\ last.kind = "ConfigMap"
  /\ last.key # AnyObject
  /\ DOMAIN errorsToReturn = {k}
  /\ errorsToReturn[k] = "e2"
  /\ ShortCircuited(last, "e2")

\* C8: List, DeleteAllOf and Status panic for every rule table, never
\* invoke the delegate, never return an injected error and leave the rule
\* table unchanged.
C8_UnimplementedStep ==
  LET l == last' IN
  l.op \in {"List", "DeleteAllOf", "Status"}
    => /\ l.err = Panic
       /\ l.fwd = << >>
       /\ errorsToReturn' = errorsToReturn
       /\ store' = store

C8_UnimplementedPanics == [][C8_UnimplementedStep]_vars

\* List panicked although the catch-all rule is registered.
C8_Witness ==
  LET any == resourceActionKey(AnyAction, anyKindGVK, AnyObject) IN
  /\ last.op = "List"
  /\ last.err = Panic
  /\ any \in DOMAIN errorsToReturn
  /\ errorsToReturn[any] = "e1"

\* C9: only InjectError changes the rule table; the error a rule makes a
\* call return changes only through an InjectError on that rule's key or
\* on a key earlier in the call's probe order.
C9_FrameStep ==
  /\ last'.op # "InjectError" => errorsToReturn' = errorsToReturn
  /\ errorsToReturn' # errorsToReturn
       => \A a \in CallActions, t \in RegisteredTypes, i \in CallKeys :
            LET probes == Probes(a, t, i)
                hits == Hits(errorsToReturn, probes)
            IN (/\ hits # {}
                /\ errorsToReturn[probes[Min(hits)]] # Nil
                /\ getStubbedError(errorsToReturn', a, t, i)
                     # errorsToReturn[probes[Min(hits)]])
                 => /\ Injected(last')
                    /\ \E n \in 1..Min(hits) : probes[n] = InjectedKey(last')

C9_OnlyInjectErrorWrites == [][C9_FrameStep]_vars

\* A rule short-circuited a call after an earlier call went through to the
\* delegate and changed what it holds.
C9_Witness ==
  /\ ProbedCall(last)
  /\ CallHits(errorsToReturn, last) # {}
  /\ ShortCircuited(last, "e1")
  /\ store # SeededObjects
  /\ steps = MaxOps

\* C10: with an object whose type the scheme does not know, an intercepted
\* call panics without reading the table or invoking the delegate, whatever
\* wildcard rules are registered, and InjectError panics without touching
\* the table.
C10_UnknownTypeStep ==
  LET l == last' IN
  (l.op \in Intercepted \cup {"InjectError"} /\ l.kind \in UnregisteredTypes)
    => /\ l.err = Panic
       /\ l.fwd = << >>
       /\ errorsToReturn' = errorsToReturn
       /\ store' = store

C10_UnknownTypePanics == [][C10_UnknownTypeStep]_vars

\* A call on an object of unknown type panicked although the rule (K, Any,
\* I) for its kind and identity is registered.
C10_Witness ==
  LET k == resourceActionKey(last.action, anyKindGVK, last.key) IN
  /\ last.op \in Intercepted
  /\ last.kind \in UnregisteredTypes
  /\ last.err = Panic
  /\ k \in DOMAIN errorsToReturn
  /\ errorsToReturn[k] = "e1"

----------------------------------------------------------------------------
\* C11 as stated: InjectError with an invalid kind returns normally and
\* leaves the rule table unchanged for every type argument (the AnyKind
\* sentinel, an object of a registered type, an object of a type unknown to
\* the scheme), every identity and every error value.
C11_SilentStep ==
  LET l == last' IN
  (l.op = "InjectError" /\ l.action \notin ValidKinds)
    => /\ l.err # Panic
       /\ errorsToReturn' = errorsToReturn

C11_InvalidKindAlwaysSilent == [][C11_SilentStep]_vars

\* C11 as amended: InjectError with an invalid kind leaves the rule table
\* and the delegate untouched for every type argument, identity and error
\* value; it returns normally when the type argument is the AnyKind
\* sentinel or an object of a registered type, and panics when the type is
\* unknown to the scheme, which is resolved before the kind is validated.
C11_InvalidStep ==
  LET l == last' IN
  (l.op = "InjectError" /\ l.action \notin ValidKinds)
    => /\ errorsToReturn' = errorsToReturn
       /\ store' = store
       /\ l.fwd = << >>
       /\ l.kind \in RegisteredTypes \cup {AnyKind} => l.err = Nil
       /\ l.kind \in UnregisteredTypes => l.err = Panic
       /\ l.resolved <=> l.kind # AnyKind

C11_InvalidKindSilentOnKnownType == [][C11_InvalidStep]_vars

\* InjectError with the zero Action, an object of a registered type, an
\* identity and a non-nil error returned normally on a table of two rules,
\* which it left as it was.
C11_Witness ==
  /\ Injected(last)
  /\ last.action \notin ValidKinds
  /\ last.kind = "Deployment"
  /\ last.key = "ns1/a"
  /\ last.arg = "e2"
  /\ last.resolved
  /\ Cardinality(DOMAIN errorsToReturn) = MaxRules
  /\ resourceActionKey(last.action, last.kind, last.key) \notin DOMAIN errorsToReturn

----------------------------------------------------------------------------
\* C12: a Get, Create, Delete, Update or Patch call with triple (K, T, I)
\* that returns an injected error without invoking the delegate does so by
\* a rule (k, t, i) of the table with k in {K, Any}, t in {T, wildcard
\* type} and i in {I, wildcard identity}; a rule that differs from the call
\* in a concrete component never affects it: the call's outcome is the one
\* the matching rules alone give, and with no matching rule the call goes
\* to the delegate whatever other rules the table holds.
C12_MatchStep ==
  LET l == last'
      matching == MatchingRules(errorsToReturn, l)
  IN ProbedCall(l)
       => /\ l.fwd = << >>
               => \E k \in matching : errorsToReturn[k] = l.err /\ l.err # Nil
          /\ matching = {}
               => /\ Forwarded(l)
                  /\ l.err = DelegateResult(l.action, store, l.kind, l.key)
                  /\ store' = DelegateStore(l.action, store, l.kind, l.key, l.arg)
          /\ matching # {}
               => Chose(l, [k \in matching |-> errorsToReturn[k]][BestRule(errorsToReturn, l)])

C12_OnlyMatchingRulesApply == [][C12_MatchStep]_vars

\* The table holds a rule on Create of ns1/a and the catch-all rule; an
\* Update of ns1/a got the catch-all's error, not the Create rule's.
C12_Witness ==
  LET other == resourceActionKey(CreateAction, "Deployment", "ns1/a")
      any == resourceActionKey(AnyAction, anyKindGVK, AnyObject)
  IN
  /\ last.op = "Update"
  /\ last.kind = "Deployment"
  /\ last.key = "ns1/a"
  /\ DOMAIN errorsToReturn = {other, any}
  /\ errorsToReturn[other] = "e1"
  /\ errorsToReturn[any] = "e2"
  /\ ShortCircuited(last, "e2")

----------------------------------------------------------------------------
\* The triple an intercepted call is to be matched with: the kind of its
\* operation, the type of its object, and as identity the supplied key for
\* Get and the object's own namespace and name for the other operations.
OperationKind(op) ==
  CASE op = "Get" -> "get"
    [] op = "Create" -> "create"
    [] op = "Delete" -> "delete"
    [] op = "Update" -> "update"
    [] op = "Patch" -> "patch"

ProbedTriple(l) ==
  [action |-> OperationKind(l.op), kind |-> l.kind,
   key |-> IF l.op = "Get" THEN l.key ELSE l.name]

\* What a call does besides returning the stub of its exact rule: a
\* short-circuit comes from a rule matching the probed triple, no such rule
\* means the call is forwarded, and outside Get the identity probed is the
\* one the delegate would be given.
C13_ProbedTripleStep ==
  LET l == last'
      t == ProbedTriple(l)
  IN ProbedCall(l)
       => /\ l.fwd = << >>
               => \E k \in MatchingRules(errorsToReturn, t) : errorsToReturn[k] = l.err
          /\ MatchingRules(errorsToReturn, t) = {} => Forwarded(l)
          /\ l.op # "Get" => l.key = l.name

\* C13 as stated: a call probes with the kind of its own operation, never
\* with Any, and with the supplied key as identity for Get, the object's
\* namespace and name for Create, Delete, Update and Patch: a rule (Get, T,
\* I) short-circuits Get(key = I, obj) whatever identity obj carries, and
\* does not short-circuit Get(key = J, obj) with J other than I, even when
\* obj carries I.
C13_ExactRuleStep ==
  LET l == last'
      t == ProbedTriple(l)
      exact == resourceActionKey(t.action, t.kind, t.key)
  IN (ProbedCall(l) /\ exact \in DOMAIN errorsToReturn)
       => ShortCircuited(l, errorsToReturn[exact])

C13_ProbeKindAndIdentityAnyValue ==
  [][C13_ExactRuleStep /\ C13_ProbedTripleStep]_vars

\* C13 as amended: the same, for a rule (Get, T, I) whose error is not nil;
\* when the rule's error is nil, Get(key = I, obj) is forwarded to the
\* delegate, whatever identity obj carries.
C13_ExactRuleChosenStep ==
  LET l == last'
      t == ProbedTriple(l)
      exact == resourceActionKey(t.action, t.kind, t.key)
  IN (ProbedCall(l) /\ exact \in DOMAIN errorsToReturn)
       => Chose(l, errorsToReturn[exact])

C13_ProbeKindAndIdentity ==
  [][C13_ExactRuleChosenStep /\ C13_ProbedTripleStep]_vars

\* The rule (Get, Deployment, ns1/a) short-circuited a Get with key ns1/a
\* into an object that carries the identity ns1/b.
C13_Witness ==
  LET k == resourceActionKey(GetAction, "Deployment", "ns1/a") IN
  /\ last.op = "Get"
  /\ last.kind = "Deployment"
  /\ last.key = "ns1/a"
  /\ last.name = "ns1/b"
  /\ DOMAIN errorsToReturn = {k}
  /\ errorsToReturn[k] = "e1"
  /\ ShortCircuited(last, "e1")

====
